---- MODULE Spec2Model ----
(***************************************************************************)
(* MicroPythonOsBackend (thonny/plugins/micropython/os_backend.py): the    *)
(* driver of a MicroPython interpreter running as a child process.         *)
(*                                                                         *)
(* Bytes are one-character strings, byte strings are sequences of them.    *)
(* The connection is the byte stream of the child: `unread` holds the      *)
(* bytes the child has produced and the backend has not consumed yet; how  *)
(* many of them a timed read returns is the choice of the scheduler.       *)
(*                                                                         *)
(* Spec, FairSpec          one scan, from the first byte of a stream       *)
(* SpecExec, FairSpecExec  one submission and the unsupported operations   *)
(* SpecIdle                unexpected output between commands              *)
(* SpecRun                 construction, first prompt and run commands     *)
(***************************************************************************)
EXTENDS Naturals, Sequences, FiniteSets

VARIABLES
    pc,          \* position of the backend's single control thread
    unread,      \* connection: bytes produced by the child, not yet read
    connError,   \* connection: closed or in error (self._connection._error)
    pending,     \* _forward_output_until_active_prompt: local `pending`
    emitted,     \* the chunks handed to output_consumer by the last command
    returned,    \* the value returned by the scan (<<>> while it runs)
    received,    \* history: every byte the last scan's reads have returned
    last,        \* history: the branch of the scan loop taken last
    sideQueue,   \* side commands queued and not yet sampled
    sideHandled, \* side commands handed to their handler
    sideTotal,   \* side commands queued so far
    child,       \* the interpreter: "repl", "paste" or "hung"
    written,     \* history: the byte strings written to the connection
    script,      \* _execute_with_consumer: the script being submitted
    progOut,     \* what the submitted program prints when it runs to its end
    out,         \* _execute_with_consumer: local `out`
    timedOut,    \* history: a read_until ended without its marker
    lastOp,      \* history: the operation invoked last
    signal,      \* the exception the last operation raised, "none" if none
    events,      \* messages sent to the front end
    welcome,     \* self._original_welcome_text
    connId,      \* which connection object self._connection is
    live,        \* the connections that are open
    ops          \* history: the steps of the command that took steps last

connVars == <<unread, connError, child, written, connId, live>>
scanVars == <<pending, returned, received, last>>
sideVars == <<sideQueue, sideHandled, sideTotal>>
execVars == <<script, progOut, out, timedOut>>
sessVars == <<lastOp, signal, events, welcome, ops>>

vars == <<pc, connVars, scanVars, emitted, sideVars, execVars, sessVars>>

----------------------------------------------------------------------------
(* Bounds *)

MaxStream == 5
MaxSide == 1
MaxPart == 1
MaxBanner == 2
MaxRuns == 1

----------------------------------------------------------------------------
(* Byte strings *)

NORMAL_PROMPT == <<">", ">", ">", " ">>
LF == <<"\n">>

PASTE_MODE_CMD == <<"^E">>
PASTE_MODE_LINE_PREFIX == <<"=", "=", "=", " ">>
EOT == <<"^D">>
SENTINEL == <<"#", "u", "u", "u">>

\* The bytes a scanned stream is made of.
Bytes == {">", " ", "\n"}

SeqsUpTo(S, n) == UNION {[1..k -> S] : k \in 0..n}

Prefix(s, n) == SubSeq(s, 1, n)
Suffix(s, n) == SubSeq(s, Len(s) - n + 1, Len(s))
Drop(s, n) == SubSeq(s, n + 1, Len(s))

\* bytes.endswith
EndsWith(s, m) == Len(s) >= Len(m) /\ Suffix(s, Len(m)) = m

\* m occurs in s as a contiguous run of bytes
Contains(s, m) == \E i \in 0..(Len(s) - Len(m)) : SubSeq(s, i + 1, i + Len(m)) = m

RECURSIVE Concat(_)
Concat(chunks) ==
    IF chunks = <<>> THEN <<>> ELSE Head(chunks) \o Concat(Tail(chunks))

Min(a, b) == IF a <= b THEN a ELSE b

\* Whether left ends with one of the non-empty prefixes of right.
ends_overlap(left, right) ==
    \E i \in 1..Min(Len(left), Len(right)) : EndsWith(left, Prefix(right, i))

----------------------------------------------------------------------------
(* The connection's reads *)

\* End of the first match of LF | NORMAL_PROMPT in buf, 0 when there is none.
FirstCloserEnd(buf) ==
    LET ends == {e \in 1..Len(buf) :
                    \/ EndsWith(Prefix(buf, e), LF)
                    \/ EndsWith(Prefix(buf, e), NORMAL_PROMPT)}
    IN IF ends = {} THEN 0 ELSE CHOOSE e \in ends : \A f \in ends : e <= f

\* soft_read_until(INCREMENTAL_OUTPUT_BLOCK_CLOSERS, timeout): the bytes up
\* to the first closer, or all that arrived before the timeout.
SoftReadUntilResults ==
    IF connError THEN {<<>>}
    ELSE {LET buf == Prefix(unread, n)
              e == FirstCloserEnd(buf)
          IN IF e > 0 THEN Prefix(buf, e) ELSE buf : n \in 0..Len(unread)}

\* soft_read(1, timeout): one byte, or nothing when none arrived in time.
SoftReadOneResults ==
    IF connError THEN {<<>>}
    ELSE {Prefix(unread, n) : n \in 0..Min(1, Len(unread))}

----------------------------------------------------------------------------
(* The command queue and the child process *)

Scanning == {"check", "poll", "probe"}
Executing == {"x_read_prefix", "x_write_script", "x_read_sentinel",
              "x_write_eot", "x_read_lf", "x_read_prompt", "x_consume"}

\* A command arrives on the command queue while the backend is busy.
QueueSideCommand ==
    /\ pc \in Scanning \cup Executing
    /\ sideTotal < MaxSide
    /\ sideQueue' = sideQueue + 1
    /\ sideTotal' = sideTotal + 1
    /\ UNCHANGED <<pc, connVars, scanVars, emitted, sideHandled, execVars, sessVars>>

\* The child process dies or the pipe breaks.
ConnectionFails ==
    /\ pc \in Scanning
    /\ ~connError
    /\ connError' = TRUE
    /\ UNCHANGED <<pc, unread, child, written, connId, live, scanVars, emitted,
                   sideVars, execVars, sessVars>>

----------------------------------------------------------------------------
(* _forward_output_until_active_prompt *)

\* Mutant: the overlap with the marker is tested before the complete marker.
ScanBranch_OverlapFirst(p) ==
    IF EndsWith(p, LF) THEN "line"
    ELSE IF ends_overlap(p, NORMAL_PROMPT) THEN "overlap"
    ELSE IF EndsWith(p, NORMAL_PROMPT) THEN "prompt"
    ELSE "other"

\* The branch of the loop body taken for the buffer p.
ScanBranch(p) ==
    IF EndsWith(p, LF) THEN "line"
    ELSE IF EndsWith(p, NORMAL_PROMPT) THEN "prompt"
    ELSE IF ends_overlap(p, NORMAL_PROMPT) THEN "overlap"
    ELSE "other"

\* The base class's _check_for_side_commands(): every queued side command
\* is taken off the queue and handed to its handler.
_check_for_side_commands ==
    /\ sideHandled' = sideHandled + sideQueue
    /\ sideQueue' = 0
    /\ UNCHANGED sideTotal

\* Mutant: the check at the top of the loop also starts the buffer afresh.
ScanCheckSideCommands_ResetsPending ==
    /\ pc = "check"
    /\ pc' = "poll"
    /\ _check_for_side_commands
    /\ pending' = IF sideQueue > 0 THEN <<>> ELSE pending
    /\ UNCHANGED <<connVars, returned, received, last, emitted, execVars, sessVars>>

\* self._check_for_side_commands() at the top of the loop.
ScanCheckSideCommands ==
    /\ pc = "check"
    /\ pc' = "poll"
    /\ _check_for_side_commands
    /\ UNCHANGED <<connVars, scanVars, emitted, execVars, sessVars>>

\* if not new_data: continue
ScanPollEmpty ==
    /\ pc = "poll"
    /\ <<>> \in SoftReadUntilResults
    /\ pc' = "check"
    /\ last' = "poll_empty"
    /\ UNCHANGED <<connVars, pending, returned, received, emitted, sideVars,
                   execVars, sessVars>>

\* pending += new_data; if pending.endswith(LF): emit, clear
ScanEmitLine ==
    /\ pc = "poll"
    /\ \E new_data \in SoftReadUntilResults \ {<<>>} :
         LET p == pending \o new_data IN
         /\ ScanBranch(p) = "line"
         /\ unread' = Drop(unread, Len(new_data))
         /\ received' = received \o new_data
         /\ emitted' = Append(emitted, p)
         /\ pending' = <<>>
    /\ pc' = "check"
    /\ last' = "line"
    /\ UNCHANGED <<connError, child, written, connId, live, returned, sideVars,
                   execVars, sessVars>>

\* Mutant: the trailing chunk is the whole buffer, the marker included.
ScanPromptReached_EmitsWholeBuffer ==
    /\ pc = "poll"
    /\ \E new_data \in SoftReadUntilResults \ {<<>>} :
         LET p == pending \o new_data IN
         /\ ScanBranch(p) = "prompt"
         /\ unread' = Drop(unread, Len(new_data))
         /\ received' = received \o new_data
         /\ emitted' = Append(emitted, p)
         /\ pending' = p
    /\ returned' = NORMAL_PROMPT
    /\ pc' = "done"
    /\ last' = "prompt"
    /\ UNCHANGED <<connError, child, written, connId, live, sideVars, execVars, sessVars>>

\* elif pending.endswith(NORMAL_PROMPT): emit the rest, return NORMAL_PROMPT
ScanPromptReached ==
    /\ pc = "poll"
    /\ \E new_data \in SoftReadUntilResults \ {<<>>} :
         LET p == pending \o new_data IN
         /\ ScanBranch(p) = "prompt"
         /\ unread' = Drop(unread, Len(new_data))
         /\ received' = received \o new_data
         /\ emitted' = Append(emitted, Prefix(p, Len(p) - Len(NORMAL_PROMPT)))
         /\ pending' = p
    /\ returned' = NORMAL_PROMPT
    /\ pc' = "done"
    /\ last' = "prompt"
    /\ UNCHANGED <<connError, child, written, connId, live, sideVars, execVars, sessVars>>

\* elif ends_overlap(pending, NORMAL_PROMPT): go on to the probe read
ScanOverlap ==
    /\ pc = "poll"
    /\ \E new_data \in SoftReadUntilResults \ {<<>>} :
         LET p == pending \o new_data IN
         /\ ScanBranch(p) = "overlap"
         /\ unread' = Drop(unread, Len(new_data))
         /\ received' = received \o new_data
         /\ pending' = p
    /\ pc' = "probe"
    /\ last' = "overlap"
    /\ UNCHANGED <<connError, child, written, connId, live, returned, emitted,
                   sideVars, execVars, sessVars>>

\* Mutant: the last branch emits the new bytes only, not the withheld ones.
ScanEmitOther_DropsWithheld ==
    /\ pc = "poll"
    /\ \E new_data \in SoftReadUntilResults \ {<<>>} :
         LET p == pending \o new_data IN
         /\ ScanBranch(p) = "other"
         /\ unread' = Drop(unread, Len(new_data))
         /\ received' = received \o new_data
         /\ emitted' = Append(emitted, new_data)
         /\ pending' = <<>>
    /\ pc' = "check"
    /\ last' = "other"
    /\ UNCHANGED <<connError, child, written, connId, live, returned, sideVars,
                   execVars, sessVars>>

\* else: emit, clear
ScanEmitOther ==
    /\ pc = "poll"
    /\ \E new_data \in SoftReadUntilResults \ {<<>>} :
         LET p == pending \o new_data IN
         /\ ScanBranch(p) = "other"
         /\ unread' = Drop(unread, Len(new_data))
         /\ received' = received \o new_data
         /\ emitted' = Append(emitted, p)
         /\ pending' = <<>>
    /\ pc' = "check"
    /\ last' = "other"
    /\ UNCHANGED <<connError, child, written, connId, live, returned, sideVars,
                   execVars, sessVars>>

\* Mutant: a probe that times out keeps the bytes withheld.
ScanProbeEmpty_KeepsWithholding ==
    /\ pc = "probe"
    /\ <<>> \in SoftReadOneResults
    /\ pc' = "check"
    /\ last' = "probe_empty"
    /\ UNCHANGED <<connVars, pending, emitted, returned, received, sideVars,
                   execVars, sessVars>>

\* follow_up = soft_read(1, timeout=0.1); if not follow_up: emit, clear
ScanProbeEmpty ==
    /\ pc = "probe"
    /\ <<>> \in SoftReadOneResults
    /\ emitted' = Append(emitted, pending)
    /\ pending' = <<>>
    /\ pc' = "check"
    /\ last' = "probe_empty"
    /\ UNCHANGED <<connVars, returned, received, sideVars, execVars, sessVars>>

\* else: pending += follow_up, and back to the top of the loop
ScanProbeByte ==
    /\ pc = "probe"
    /\ \E follow_up \in SoftReadOneResults \ {<<>>} :
         /\ unread' = Drop(unread, Len(follow_up))
         /\ received' = received \o follow_up
         /\ pending' = pending \o follow_up
    /\ pc' = "check"
    /\ last' = "probe_byte"
    /\ UNCHANGED <<connError, child, written, connId, live, returned, emitted,
                   sideVars, execVars, sessVars>>

ScanStep ==
    \/ ScanCheckSideCommands
    \/ ScanPollEmpty
    \/ ScanEmitLine
    \/ ScanPromptReached
    \/ ScanOverlap
    \/ ScanEmitOther
    \/ ScanProbeEmpty
    \/ ScanProbeByte

----------------------------------------------------------------------------
(* A scan of one connection, from its first byte *)

Init ==
    /\ pc = "check"
    /\ unread \in SeqsUpTo(Bytes, MaxStream)
    /\ connError = FALSE
    /\ child = "repl"
    /\ written = <<>>
    /\ connId = 1
    /\ pending = <<>>
    /\ emitted = <<>>
    /\ returned = <<>>
    /\ received = <<>>
    /\ last = "none"
    /\ sideQueue = 0
    /\ sideHandled = 0
    /\ sideTotal = 0
    /\ script = <<>>
    /\ progOut = <<>>
    /\ out = <<>>
    /\ timedOut = FALSE
    /\ lastOp = "none"
    /\ signal = "none"
    /\ events = <<>>
    /\ welcome = <<>>
    /\ live = {1}
    /\ ops = <<>>

Next ==
    \/ ScanStep
    \/ QueueSideCommand
    \/ ConnectionFails

Spec == Init /\ [][Next]_vars

\* The control thread keeps running: a scan that can take a step takes one.
FairSpec == Spec /\ WF_vars(ScanStep)

----------------------------------------------------------------------------
(* The interpreter in paste mode *)

\* The texts with the bytes m put in at any one place.
WithInserted(texts, m) ==
    UNION {{Prefix(s, i) \o m \o Drop(s, i) : i \in 0..Len(s)} : s \in texts}

\* Scripts: plain text, with or without the sentinel's bytes inside.
ScriptTexts == SeqsUpTo({"p", "\n"}, MaxPart)
Scripts == ScriptTexts \cup WithInserted(ScriptTexts, SENTINEL)

\* What a program prints: plain text, with or without the prompt's bytes.
OutputTexts == SeqsUpTo({"2", "\n"}, MaxPart)
Outputs == OutputTexts \cup WithInserted(OutputTexts, NORMAL_PROMPT)

\* The empty script prints nothing.
ProgramOutputs(s) == IF s = <<>> THEN {<<>>} ELSE Outputs

\* Paste mode echoes its input, and starts every new line with the prefix.
RECURSIVE PasteEcho(_)
PasteEcho(s) ==
    IF s = <<>> THEN <<>>
    ELSE IF Head(s) = "\n" THEN LF \o PASTE_MODE_LINE_PREFIX \o PasteEcho(Tail(s))
    ELSE <<Head(s)>> \o PasteEcho(Tail(s))

\* What the interpreter answers to the bytes `data` when it answers in full,
\* given what the program it then runs prints.
ChildAnswer(data, printed) ==
    IF child = "repl" /\ data = PASTE_MODE_CMD THEN LF \o PASTE_MODE_LINE_PREFIX
    ELSE IF child = "paste" /\ data = EOT THEN LF \o printed \o NORMAL_PROMPT
    ELSE IF child = "paste" THEN PasteEcho(data)
    ELSE <<>>

ChildModeAfter(data) ==
    IF child = "repl" /\ data = PASTE_MODE_CMD THEN "paste"
    ELSE IF child = "paste" /\ data = EOT THEN "repl"
    ELSE child

\* self._connection.write(data): the child answers, in full or up to the
\* point where it dies, hangs or blocks waiting for input.
ConnectionWrite(data, printed) ==
    /\ written' = Append(written, data)
    /\ \E n \in 0..Len(ChildAnswer(data, printed)) :
         /\ unread' = unread \o Prefix(ChildAnswer(data, printed), n)
         /\ child' = IF n = Len(ChildAnswer(data, printed))
                     THEN ChildModeAfter(data) ELSE "hung"
    /\ UNCHANGED <<connError, connId, live>>

\* End of the first occurrence of pat in buf, 0 when there is none.
FirstEnd(buf, pat) ==
    LET ends == {e \in 1..Len(buf) : EndsWith(Prefix(buf, e), pat)}
    IN IF ends = {} THEN 0 ELSE CHOOSE e \in ends : \A f \in ends : e <= f

\* read_until(pat) can return: pat has arrived, or it never will and the
\* read ends on its timeout or on end of stream.
ReadUntilReturns(pat) == FirstEnd(unread, pat) > 0 \/ child = "hung"

\* read_until(pat): the bytes up to and including pat, or what there is.
ReadUntilResult(pat) ==
    IF FirstEnd(unread, pat) > 0 THEN Prefix(unread, FirstEnd(unread, pat))
    ELSE unread

\* self._connection.read_until(pat), the result dropped by the caller
ConnectionReadUntil(pat) ==
    /\ ReadUntilReturns(pat)
    /\ unread' = Drop(unread, Len(ReadUntilResult(pat)))
    /\ timedOut' = (timedOut \/ FirstEnd(unread, pat) = 0)
    /\ UNCHANGED <<connError, child, written, connId, live>>

\* data[:-n]
StripLast(data, n) == Prefix(data, IF Len(data) >= n THEN Len(data) - n ELSE 0)

----------------------------------------------------------------------------
(* _execute_with_consumer *)

\* self._connection.write(PASTE_MODE_CMD), for the first script of a connection
ExecWritePasteCmd ==
    /\ pc = "idle"
    /\ written = <<>>
    /\ \E s \in Scripts : script' = s
    /\ ConnectionWrite(PASTE_MODE_CMD, <<>>)
    /\ lastOp' = "_execute_with_consumer"
    /\ signal' = "none"
    /\ pc' = "x_read_prefix"
    /\ ops' = <<"write PASTE_MODE_CMD">>
    /\ UNCHANGED <<scanVars, emitted, sideVars, progOut, out, timedOut, events, welcome>>

\* self._connection.read_until(PASTE_MODE_LINE_PREFIX)
ExecReadPrefix ==
    /\ pc = "x_read_prefix"
    /\ ConnectionReadUntil(PASTE_MODE_LINE_PREFIX)
    /\ pc' = "x_write_script"
    /\ ops' = Append(ops, "read PASTE_MODE_LINE_PREFIX")
    /\ UNCHANGED <<scanVars, emitted, sideVars, script, progOut, out, lastOp, signal, events, welcome>>

\* self._connection.write(script + "#uuu")
ExecWriteScript ==
    /\ pc = "x_write_script"
    /\ ConnectionWrite(script \o SENTINEL, <<>>)
    /\ pc' = "x_read_sentinel"
    /\ ops' = Append(ops, "write script")
    /\ UNCHANGED <<scanVars, emitted, sideVars, execVars, lastOp, signal, events, welcome>>

\* Mutant: end-of-transmission is written without waiting for the echo of
\* the sentinel.
ExecReadSentinel_NotAwaited ==
    /\ pc = "x_read_sentinel"
    /\ pc' = "x_write_eot"
    /\ UNCHANGED <<connVars, scanVars, emitted, sideVars, execVars, sessVars>>

\* self._connection.read_until(b"#uuu")
ExecReadSentinel ==
    /\ pc = "x_read_sentinel"
    /\ ConnectionReadUntil(SENTINEL)
    /\ pc' = "x_write_eot"
    /\ ops' = Append(ops, "read sentinel")
    /\ UNCHANGED <<scanVars, emitted, sideVars, script, progOut, out, lastOp, signal, events, welcome>>

\* self._connection.write(EOT): the interpreter runs what it was given
ExecWriteEOT ==
    /\ pc = "x_write_eot"
    /\ \E printed \in ProgramOutputs(script) :
         /\ progOut' = printed
         /\ ConnectionWrite(EOT, printed)
    /\ pc' = "x_read_lf"
    /\ ops' = Append(ops, "write EOT")
    /\ UNCHANGED <<scanVars, emitted, sideVars, script, out, timedOut, lastOp, signal, events, welcome>>

\* self._connection.read_until(b"\n")
ExecReadLF ==
    /\ pc = "x_read_lf"
    /\ ConnectionReadUntil(LF)
    /\ pc' = "x_read_prompt"
    /\ ops' = Append(ops, "read LF")
    /\ UNCHANGED <<scanVars, emitted, sideVars, script, progOut, out, lastOp, signal, events, welcome>>

\* out = self._connection.read_until(NORMAL_PROMPT)[: -len(NORMAL_PROMPT)]
ExecReadPrompt ==
    /\ pc = "x_read_prompt"
    /\ out' = StripLast(ReadUntilResult(NORMAL_PROMPT), Len(NORMAL_PROMPT))
    /\ ConnectionReadUntil(NORMAL_PROMPT)
    /\ pc' = "x_consume"
    /\ ops' = Append(ops, "read NORMAL_PROMPT")
    /\ UNCHANGED <<scanVars, emitted, sideVars, script, progOut, lastOp, signal, events, welcome>>

\* output_consumer(out, "stdout"), and the method returns
ExecConsume ==
    /\ pc = "x_consume"
    /\ emitted' = Append(emitted, out)
    /\ pc' = "idle"
    /\ ops' = Append(ops, "output_consumer")
    /\ UNCHANGED <<connVars, scanVars, sideVars, execVars, lastOp, signal, events, welcome>>

ExecStep ==
    \/ ExecWritePasteCmd
    \/ ExecReadPrefix
    \/ ExecWriteScript
    \/ ExecReadSentinel
    \/ ExecWriteEOT
    \/ ExecReadLF
    \/ ExecReadPrompt
    \/ ExecConsume

----------------------------------------------------------------------------
(* The operations this backend does not support *)

\* raise NotImplementedError()
_soft_reboot ==
    /\ pc = "idle"
    /\ lastOp' = "_soft_reboot"
    /\ signal' = "NotImplementedError"
    /\ UNCHANGED <<pc, connVars, scanVars, emitted, sideVars, execVars, events, welcome, ops>>

\* raise NotImplementedError()
_cmd_get_fs_info ==
    /\ pc = "idle"
    /\ lastOp' = "_cmd_get_fs_info"
    /\ signal' = "NotImplementedError"
    /\ UNCHANGED <<pc, connVars, scanVars, emitted, sideVars, execVars, events, welcome, ops>>

\* raise NotImplementedError()
_cmd_write_file ==
    /\ pc = "idle"
    /\ lastOp' = "_cmd_write_file"
    /\ signal' = "NotImplementedError"
    /\ UNCHANGED <<pc, connVars, scanVars, emitted, sideVars, execVars, events, welcome, ops>>

\* raise NotImplementedError()
_cmd_delete ==
    /\ pc = "idle"
    /\ lastOp' = "_cmd_delete"
    /\ signal' = "NotImplementedError"
    /\ UNCHANGED <<pc, connVars, scanVars, emitted, sideVars, execVars, events, welcome, ops>>

\* raise NotImplementedError()
_cmd_read_file ==
    /\ pc = "idle"
    /\ lastOp' = "_cmd_read_file"
    /\ signal' = "NotImplementedError"
    /\ UNCHANGED <<pc, connVars, scanVars, emitted, sideVars, execVars, events, welcome, ops>>

\* Mutant: the operation does nothing and returns.
_cmd_mkdir_SilentNoOp ==
    /\ pc = "idle"
    /\ lastOp' = "_cmd_mkdir"
    /\ signal' = "none"
    /\ UNCHANGED <<pc, connVars, scanVars, emitted, sideVars, execVars, events, welcome, ops>>

\* raise NotImplementedError()
_cmd_mkdir ==
    /\ pc = "idle"
    /\ lastOp' = "_cmd_mkdir"
    /\ signal' = "NotImplementedError"
    /\ UNCHANGED <<pc, connVars, scanVars, emitted, sideVars, execVars, events, welcome, ops>>

\* raise NotImplementedError()
_upload_file ==
    /\ pc = "idle"
    /\ lastOp' = "_upload_file"
    /\ signal' = "NotImplementedError"
    /\ UNCHANGED <<pc, connVars, scanVars, emitted, sideVars, execVars, events, welcome, ops>>

\* raise NotImplementedError()
_download_file ==
    /\ pc = "idle"
    /\ lastOp' = "_download_file"
    /\ signal' = "NotImplementedError"
    /\ UNCHANGED <<pc, connVars, scanVars, emitted, sideVars, execVars, events, welcome, ops>>

Unsupported ==
    \/ _soft_reboot
    \/ _cmd_get_fs_info
    \/ _cmd_write_file
    \/ _cmd_delete
    \/ _cmd_read_file
    \/ _cmd_mkdir
    \/ _upload_file
    \/ _download_file

UnsupportedOps ==
    {"_soft_reboot", "_cmd_get_fs_info", "_cmd_write_file", "_cmd_delete",
     "_cmd_read_file", "_cmd_mkdir", "_upload_file", "_download_file"}

----------------------------------------------------------------------------
(* _forward_unexpected_output *)

\* self._connection.read_all(): the bytes that have arrived, without waiting.
ReadAllResults == {Prefix(unread, n) : n \in 0..Len(unread)}

\* self._send_output(data, stream_name): one output event for the front end.
_send_output(data, stream_name) ==
    events' = Append(events, <<"ProgramOutput", stream_name, data>>)

\* Mutant: nothing is sent when nothing is left after the prompt is removed.
_forward_unexpected_output_SkipsPromptOnly ==
    /\ pc = "idle"
    /\ \E data \in ReadAllResults :
         /\ unread' = Drop(unread, Len(data))
         /\ IF EndsWith(data, NORMAL_PROMPT) /\ Len(data) > Len(NORMAL_PROMPT)
            THEN _send_output(StripLast(data, Len(NORMAL_PROMPT)), "stdout")
            ELSE IF data # <<>> /\ ~EndsWith(data, NORMAL_PROMPT)
            THEN _send_output(data, "stdout")
            ELSE UNCHANGED events
    /\ lastOp' = "_forward_unexpected_output"
    /\ signal' = "none"
    /\ UNCHANGED <<pc, connError, child, written, connId, live, scanVars,
                   emitted, sideVars, execVars, welcome, ops>>

\* data = read_all(); if data.endswith(NORMAL_PROMPT): send data[:-len];
\* elif data: send data
_forward_unexpected_output ==
    /\ pc = "idle"
    /\ \E data \in ReadAllResults :
         /\ unread' = Drop(unread, Len(data))
         /\ IF EndsWith(data, NORMAL_PROMPT)
            THEN _send_output(StripLast(data, Len(NORMAL_PROMPT)), "stdout")
            ELSE IF data # <<>>
            THEN _send_output(data, "stdout")
            ELSE UNCHANGED events
    /\ lastOp' = "_forward_unexpected_output"
    /\ signal' = "none"
    /\ UNCHANGED <<pc, connError, child, written, connId, live, scanVars,
                   emitted, sideVars, execVars, welcome, ops>>

----------------------------------------------------------------------------
(* The backend between commands, its first prompt behind it *)

WelcomeBanner == <<"M", "P", "\n">>

InitExec ==
    /\ pc = "idle"
    /\ unread = <<>>
    /\ connError = FALSE
    /\ child = "repl"
    /\ written = <<>>
    /\ connId = 1
    /\ pending = <<>>
    /\ emitted = <<>>
    /\ returned = <<>>
    /\ received = <<>>
    /\ last = "none"
    /\ sideQueue = 0
    /\ sideHandled = 0
    /\ sideTotal = 0
    /\ script = <<>>
    /\ progOut = <<>>
    /\ out = <<>>
    /\ timedOut = FALSE
    /\ lastOp = "none"
    /\ signal = "none"
    /\ events = <<>>
    /\ welcome = WelcomeBanner
    /\ live = {1}
    /\ ops = <<>>

NextExec ==
    \/ ExecStep
    \/ Unsupported
    \/ QueueSideCommand

SpecExec == InitExec /\ [][NextExec]_vars

\* The control thread keeps running: a submission that can take a step
\* takes one.
FairSpecExec == SpecExec /\ WF_vars(ExecStep)

\* The backend between commands, when the child has printed something
\* nobody asked for.
InitIdle ==
    /\ pc = "idle"
    /\ unread \in SeqsUpTo(Bytes, MaxStream)
    /\ connError = FALSE
    /\ child = "repl"
    /\ written = <<>>
    /\ connId = 1
    /\ live = {1}
    /\ pending = <<>>
    /\ emitted = <<>>
    /\ returned = <<>>
    /\ received = <<>>
    /\ last = "none"
    /\ sideQueue = 0
    /\ sideHandled = 0
    /\ sideTotal = 0
    /\ script = <<>>
    /\ progOut = <<>>
    /\ out = <<>>
    /\ timedOut = FALSE
    /\ lastOp = "none"
    /\ signal = "none"
    /\ events = <<>>
    /\ welcome = WelcomeBanner
    /\ ops = <<>>

NextIdle == _forward_unexpected_output

SpecIdle == InitIdle /\ [][NextIdle]_vars

----------------------------------------------------------------------------
(* __init__, _process_until_initial_prompt and _cmd_Run *)

CRLF == <<"\r", "\n">>

\* "Use Ctrl-D to exit, Ctrl-E for paste mode\n"
PasteModeHint == <<"U", "\n">>

\* str.replace(old, new): every occurrence, from the left, not overlapping
RECURSIVE Replace(_, _, _)
Replace(s, old, new) ==
    IF Len(s) < Len(old) THEN s
    ELSE IF Prefix(s, Len(old)) = old
         THEN new \o Replace(Drop(s, Len(old)), old, new)
         ELSE <<Head(s)>> \o Replace(Tail(s), old, new)

\* What an interpreter prints before its first prompt: the output of the
\* program it was started with, and its banner.
BannerTexts ==
    SeqsUpTo({"\r", "\n"}, MaxBanner)
        \cup {<<"M">>, <<"M", "\n">> \o PasteModeHint}

\* The stream of a new interpreter, up to its first prompt.
Streams == {t \o NORMAL_PROMPT : t \in BannerTexts}

\* "\n" + str(e) + "\n"
ConnectionFailedText == LF \o <<"e">> \o LF

\* self._welcome_text
_welcome_text == Replace(welcome, PasteModeHint, <<>>)

\* The commands run so far.
NumRuns == Cardinality({i \in DOMAIN ops : ops[i] = "close"})

\* SubprocessConnection(...): the child is started and its pipes are open.
SubprocessConnection ==
    /\ connId' = connId + 1
    /\ live' = live \cup {connId + 1}
    /\ unread' \in Streams
    /\ connError' = FALSE
    /\ child' = "repl"
    /\ UNCHANGED written

\* __init__: self._connection = SubprocessConnection(executable)
Construct ==
    /\ pc = "new"
    /\ SubprocessConnection
    /\ lastOp' = "__init__"
    /\ ops' = Append(ops, "spawn")
    /\ pc' = "scan"
    /\ UNCHANGED <<scanVars, emitted, sideVars, execVars, signal, events, welcome>>

\* __init__: except ConnectionFailedException: report on stderr, return
ConstructFails ==
    /\ pc = "new"
    /\ events' = Append(events, <<"ProgramOutput", "stderr", ConnectionFailedText>>)
    /\ lastOp' = "__init__"
    /\ ops' = Append(ops, "spawn failed")
    /\ pc' = "halted"
    /\ UNCHANGED <<connVars, scanVars, emitted, sideVars, execVars, signal, welcome>>

\* The call of _forward_output_until_active_prompt: pending = b""
ScanEnter ==
    /\ pc = "scan"
    /\ pending' = <<>>
    /\ ops' = Append(ops, "scan")
    /\ pc' = "check"
    /\ UNCHANGED <<connVars, returned, received, last, emitted, sideVars,
                   execVars, lastOp, signal, events, welcome>>

\* _process_until_initial_prompt, after the scan: the output collected is
\* joined, decoded, and "\r\n" replaced by "\n"
ProcessInitialPrompt ==
    /\ pc = "done"
    /\ lastOp = "__init__"
    /\ welcome' = Replace(Concat(emitted), CRLF, LF)
    /\ ops' = Append(ops, "capture")
    /\ pc' = "idle"
    /\ UNCHANGED <<connVars, scanVars, emitted, sideVars, execVars, lastOp,
                   signal, events>>

\* Mutant: the old connection is left open.
RunClose_LeavesOpen ==
    /\ pc = "idle"
    /\ NumRuns < MaxRuns
    /\ unread' = <<>>
    /\ connError' = TRUE
    /\ lastOp' = "_cmd_Run"
    /\ signal' = "none"
    /\ ops' = Append(ops, "close")
    /\ pc' = "spawn"
    /\ pending' = <<>>
    /\ returned' = <<>>
    /\ received' = <<>>
    /\ emitted' = <<>>
    /\ last' = "none"
    /\ UNCHANGED <<live, child, written, connId, sideVars, execVars, events,
                   welcome>>

\* _cmd_Run: self._connection.close()
RunClose ==
    /\ pc = "idle"
    /\ NumRuns < MaxRuns
    /\ live' = live \ {connId}
    /\ unread' = <<>>
    /\ connError' = TRUE
    /\ lastOp' = "_cmd_Run"
    /\ signal' = "none"
    /\ ops' = Append(ops, "close")
    /\ pc' = "spawn"
    /\ pending' = <<>>
    /\ returned' = <<>>
    /\ received' = <<>>
    /\ emitted' = <<>>
    /\ last' = "none"
    /\ UNCHANGED <<child, written, connId, sideVars, execVars, events, welcome>>

\* _cmd_Run: self._connection = SubprocessConnection(executable, ["-i"] + args)
RunSpawn ==
    /\ pc = "spawn"
    /\ SubprocessConnection
    /\ ops' = Append(ops, "spawn")
    /\ pc' = "scan"
    /\ UNCHANGED <<scanVars, emitted, sideVars, execVars, lastOp, signal,
                   events, welcome>>

\* Mutant: the exception is caught and the command goes on.
RunSpawnFails_GoesOn ==
    /\ pc = "spawn"
    /\ ops' = Append(ops, "spawn failed")
    /\ pc' = "scan"
    /\ UNCHANGED <<connVars, scanVars, emitted, sideVars, execVars, lastOp,
                   signal, events, welcome>>

\* _cmd_Run: SubprocessConnection raises ConnectionFailedException, which
\* nothing in _cmd_Run catches
RunSpawnFails ==
    /\ pc = "spawn"
    /\ signal' = "ConnectionFailedException"
    /\ ops' = Append(ops, "spawn failed")
    /\ pc' = "idle"
    /\ UNCHANGED <<connVars, scanVars, emitted, sideVars, execVars, lastOp,
                   events, welcome>>

\* Mutant: the text announced is the output of the connection just opened,
\* which becomes the welcome text.
RunAnnounce_Recaptures ==
    /\ pc = "done"
    /\ lastOp = "_cmd_Run"
    /\ welcome' = Replace(Concat(emitted), CRLF, LF)
    /\ events' = Append(events, <<"HideTrailingOutput", welcome'>>)
    /\ ops' = Append(ops, "announce")
    /\ pc' = "helpers"
    /\ UNCHANGED <<connVars, scanVars, emitted, sideVars, execVars, lastOp, signal>>

\* _cmd_Run: send_message(BackendEvent("HideTrailingOutput",
\* text=self._original_welcome_text))
RunAnnounce ==
    /\ pc = "done"
    /\ lastOp = "_cmd_Run"
    /\ events' = Append(events, <<"HideTrailingOutput", welcome>>)
    /\ ops' = Append(ops, "announce")
    /\ pc' = "helpers"
    /\ UNCHANGED <<connVars, scanVars, emitted, sideVars, execVars, lastOp,
                   signal, welcome>>

\* _cmd_Run: self._prepare_helpers()
RunPrepareHelpers ==
    /\ pc = "helpers"
    /\ ops' = Append(ops, "helpers")
    /\ pc' = "idle"
    /\ UNCHANGED <<connVars, scanVars, emitted, sideVars, execVars, lastOp,
                   signal, events, welcome>>

_cmd_Run ==
    \/ RunClose
    \/ RunSpawn
    \/ RunSpawnFails
    \/ RunAnnounce
    \/ RunPrepareHelpers

InitRun ==
    /\ pc = "new"
    /\ unread = <<>>
    /\ connError = FALSE
    /\ child = "repl"
    /\ written = <<>>
    /\ connId = 0
    /\ live = {}
    /\ pending = <<>>
    /\ emitted = <<>>
    /\ returned = <<>>
    /\ received = <<>>
    /\ last = "none"
    /\ sideQueue = 0
    /\ sideHandled = 0
    /\ sideTotal = 0
    /\ script = <<>>
    /\ progOut = <<>>
    /\ out = <<>>
    /\ timedOut = FALSE
    /\ lastOp = "none"
    /\ signal = "none"
    /\ events = <<>>
    /\ welcome = <<>>
    /\ ops = <<>>

NextRun ==
    \/ Construct
    \/ ConstructFails
    \/ ScanEnter
    \/ ScanStep
    \/ ProcessInitialPrompt
    \/ _cmd_Run

SpecRun == InitRun /\ [][NextRun]_vars

----------------------------------------------------------------------------
(* Properties of the scan *)

ScanRunning == pc \in Scanning

\* C1: once the complete prompt marker has been received (it sits in the
\* pending buffer) and no further bytes arrive, the scan eventually returns
\* the prompt, unless the connection fails.
C1_PromptEventuallyReached ==
    (ScanRunning /\ EndsWith(pending, NORMAL_PROMPT) /\ unread = <<>>)
        ~> (pc = "done" \/ connError)

\* C2: no chunk handed to output_consumer contains the complete prompt marker.
C2_NoMarkerInOutput ==
    \A i \in DOMAIN emitted : ~Contains(emitted[i], NORMAL_PROMPT)

\* C3: when the tail of the pending buffer is a partial prefix of the marker
\* and the probe read returns nothing, the whole buffer is emitted as one
\* chunk, the buffer is cleared, no prompt is signalled and the loop goes on
\* with a new iteration.
C3_ProbeTimeoutReleasesBuffer ==
    [][(pc = "probe" /\ pc' # "probe" /\ received' = received)
          => /\ ends_overlap(pending, NORMAL_PROMPT)
             /\ emitted' = Append(emitted, pending)
             /\ pending' = <<>>
             /\ returned' = <<>>
             /\ pc' = "check"]_vars

C3_Witness ==
    /\ last = "probe_empty"
    /\ pc = "check"
    /\ pending = <<>>
    /\ emitted # <<>>
    /\ ends_overlap(emitted[Len(emitted)], NORMAL_PROMPT)

\* C4: the chunks emitted so far followed by the pending buffer are the
\* bytes read so far; when the scan has returned, the chunks followed by
\* the prompt marker are all the bytes read.
C4_NoLossNoDuplication ==
    /\ ScanRunning => Concat(emitted) \o pending = received
    /\ pc = "done" => Concat(emitted) \o NORMAL_PROMPT = received

C4_Witness ==
    /\ pc = "done"
    /\ Len(emitted) >= 2
    /\ Concat(emitted) # <<>>
    /\ last = "prompt"

\* C8: sampling a side command leaves the scan as it was (the bytes read,
\* the pending buffer, the chunks emitted and the result are those of the
\* scan without the side command), the scan goes on with its poll read, and
\* every queued side command is handed to its handler exactly once.
C8_SideCommandTransparent ==
    /\ [](sideHandled + sideQueue = sideTotal)
    /\ [][sideHandled' # sideHandled
            => /\ UNCHANGED <<unread, pending, received, emitted, returned>>
               /\ sideHandled' = sideHandled + sideQueue
               /\ sideQueue' = 0
               /\ pc' = "poll"]_vars

C8_Witness ==
    /\ sideHandled = 1
    /\ pc = "poll"
    /\ pending # <<>>
    /\ emitted # <<>>

\* C9: on a closed or erroring connection the scan does not retry forever:
\* it ends.
C9_ErrorEndsScan ==
    (ScanRunning /\ connError) ~> ~ScanRunning

\* C13: a scan returns from one step only, the step of a poll read after
\* which the pending buffer ends with the complete marker; it returns
\* NORMAL_PROMPT, that step emits the trailing chunk (the buffer less the
\* marker) once, and after it the scan emits no chunk and reads nothing.
C13_OnePromptReachedEndsScan ==
    /\ [](returned # <<>> <=> pc = "done")
    /\ [][(pc # "done" /\ pc' = "done")
            => /\ pc = "poll"
               /\ received' # received
               /\ EndsWith(pending', NORMAL_PROMPT)
               /\ returned' = NORMAL_PROMPT
               /\ emitted' = Append(emitted, StripLast(pending',
                                                       Len(NORMAL_PROMPT)))]_vars
    /\ [][pc = "done"
            => UNCHANGED <<pc, emitted, unread, received, returned>>]_vars

C13_Witness ==
    /\ pc = "done"
    /\ returned = NORMAL_PROMPT
    /\ emitted # <<>>
    /\ emitted[Len(emitted)] # <<>>
    /\ emitted[Len(emitted)] \o NORMAL_PROMPT = pending

\* The pending buffer holds nothing, or bytes withheld because they may be
\* the beginning of the marker.
WithheldPrefix(p) ==
    /\ ends_overlap(p, NORMAL_PROMPT)
    /\ ~EndsWith(p, NORMAL_PROMPT)
    /\ ~EndsWith(p, LF)

\* C15: at the start of every iteration of the scan the pending buffer is
\* empty or a withheld tail that is a partial prefix of the marker; it never
\* ends with a line feed or with the complete marker there.
C15_PendingAtLoopTop ==
    pc \in {"check", "poll"} => (pending = <<>> \/ WithheldPrefix(pending))

\* C16: the side-command check runs once at the top of each iteration,
\* before the poll read and nowhere else (the poll read follows the check,
\* the decision and the probe read follow the poll read with no check in
\* between), and never while bytes are withheld in the pending buffer.
C16_SideCheckAtLoopGranularity ==
    /\ [][pc' = "poll" => pc = "check"]_pc
    /\ [][pc = "check" => pc' = "poll"]_pc
    /\ [][sideHandled' # sideHandled => pc = "check"]_vars
    /\ [][(pc = "check" /\ pc' = "poll") => pending = <<>>]_vars

\* The ends of the chunks emitted so far, as positions in the bytes read.
ChunkEnds ==
    {Len(Concat(SubSeq(emitted, 1, i))) : i \in DOMAIN emitted}

\* The positions in the bytes read that lie inside an occurrence of the
\* marker, a byte of it on either side.
InsideMarker ==
    {i + k : i \in {j \in 0..(Len(received) - Len(NORMAL_PROMPT)) :
                      SubSeq(received, j + 1, j + Len(NORMAL_PROMPT))
                          = NORMAL_PROMPT},
             k \in 1..(Len(NORMAL_PROMPT) - 1)}

\* C17 as stated: every chunk but the trailing chunk before the return ends
\* with a line feed, and no chunk ends inside a prompt marker.
C17_ChunksEndWithLineFeed ==
    /\ \A i \in DOMAIN emitted :
          (i < Len(emitted) \/ pc # "done") => EndsWith(emitted[i], LF)
    /\ ChunkEnds \cap InsideMarker = {}

\* C17: every chunk is the whole pending buffer, and a chunk other than the
\* trailing one is not empty and is emitted because it ends with a line
\* feed, or because its tail is no partial prefix of the marker, or because
\* the probe read after a partial prefix timed out; the trailing chunk is
\* the buffer less the marker that ends the scan, so that marker is not
\* divided between a chunk and the buffer.
C17_ChunkBoundaries ==
    [][emitted' # emitted =>
         \E c \in {emitted'[Len(emitted')]} :
           /\ emitted' = Append(emitted, c)
           /\ \/ /\ pc' = "done"
                 /\ pending' = c \o NORMAL_PROMPT
                 /\ received' = Concat(emitted') \o NORMAL_PROMPT
              \/ /\ pc' = "check"
                 /\ pending' = <<>>
                 /\ c # <<>>
                 /\ received' = Concat(emitted')
                 /\ \/ pc = "poll" /\ EndsWith(c, LF)
                    \/ /\ pc = "poll"
                       /\ ~EndsWith(c, LF)
                       /\ ~ends_overlap(c, NORMAL_PROMPT)
                    \/ /\ pc = "probe"
                       /\ c = pending
                       /\ unread' = unread
                       /\ WithheldPrefix(c)]_vars

C17_Witness ==
    /\ pc = "done"
    /\ Len(emitted) = 2
    /\ emitted[1] # <<>>
    /\ ~EndsWith(emitted[1], LF)
    /\ emitted[2] = <<>>

\* C19: the scan takes the overlap branch for a buffer exactly when some
\* k in 1..Len(marker) has the buffer's last k bytes equal to the marker's
\* first k bytes and the buffer does not end with the complete marker; the
\* probe read is issued only for a buffer that ends neither with a line
\* feed nor with the complete marker and whose tail is such a prefix; and a
\* buffer that ends with the complete marker takes the step that returns
\* the prompt.
C19_OverlapExcludesExactMatch ==
    /\ \A B \in SeqsUpTo(Bytes, Len(NORMAL_PROMPT) + 1) :
          ScanBranch(B) = "overlap"
              <=> /\ \E k \in 1..Len(NORMAL_PROMPT) :
                       /\ k <= Len(B)
                       /\ Suffix(B, k) = Prefix(NORMAL_PROMPT, k)
                  /\ ~EndsWith(B, NORMAL_PROMPT)
    /\ pc = "probe" => WithheldPrefix(pending)
    /\ EndsWith(pending, NORMAL_PROMPT) => pc = "done"

----------------------------------------------------------------------------
(* Properties of a submission *)

ExecReturned == pc = "idle" /\ written # <<>>

\* C5: if all six framing steps complete (every read found its marker),
\* output_consumer is invoked exactly once, with exactly the program's
\* output, for every script and every program output.
C5_ExactProgramOutput ==
    (ExecReturned /\ ~timedOut /\ child # "hung") => emitted = <<progOut>>

\* C6: if the marker a read step waits for never arrives, the submission
\* fails with a protocol error and output_consumer is never invoked.
C6_MissingMarkerFails ==
    timedOut => /\ emitted = <<>>
                /\ ExecReturned => signal = "ProtocolError"

\* C7: a side command queued while the submitted script executes (after
\* end-of-transmission was written, before the prompt is seen) is eventually
\* sampled and handled while the submission is still under way.
C7_SideCommandSampledWhileWaiting ==
    (pc \in {"x_read_lf", "x_read_prompt"} /\ sideQueue > 0)
        ~> (sideHandled > 0 /\ pc \in Executing)

\* C10: an unsupported operation raises NotImplementedError and changes
\* nothing else: no write to and no read from the connection, no event, no
\* output, the same connection and the same welcome text.
C10_UnsupportedFailsFast ==
    [][(lastOp' \in UnsupportedOps /\ <<lastOp, signal>>' # <<lastOp, signal>>)
          => /\ signal' = "NotImplementedError"
             /\ UNCHANGED <<pc, connVars, emitted, events, welcome, scanVars,
                            sideVars, execVars>>]_vars

C10_Witness ==
    /\ lastOp = "_cmd_read_file"
    /\ signal = "NotImplementedError"
    /\ written # <<>>
    /\ emitted # <<>>
    /\ unread # <<>>

\* The steps of _execute_with_consumer, in the order of the code.
Framing ==
    <<"write PASTE_MODE_CMD", "read PASTE_MODE_LINE_PREFIX", "write script",
      "read sentinel", "write EOT", "read LF", "read NORMAL_PROMPT",
      "output_consumer">>

\* The byte strings a submission of the script s writes, in order.
FramingWrites(s) == <<PASTE_MODE_CMD, s \o SENTINEL, EOT>>

\* The writes among the first n steps of the framing.
WritesIn(n) == Cardinality({i \in 1..n : i \in {1, 3, 5}})

\* C18: for every script, the empty one included, the steps of a submission
\* are taken in the fixed order write paste-mode command, read line prefix,
\* write script and sentinel, read sentinel, write end-of-transmission, read
\* line feed, read prompt, each once and each write after the read before it
\* has returned; output_consumer is invoked only after the last read, once;
\* and what is delivered for the empty script is empty.
C18_FramingOrder ==
    /\ Len(ops) <= Len(Framing)
    /\ ops = Prefix(Framing, Len(ops))
    /\ written = Prefix(FramingWrites(script), WritesIn(Len(ops)))
    /\ Len(emitted) = (IF Len(ops) = Len(Framing) THEN 1 ELSE 0)
    /\ (pc = "idle") = (Len(ops) \in {0, Len(Framing)})
    /\ (script = <<>> /\ emitted # <<>>) => emitted = <<<<>>>>

C18_Witness ==
    /\ script = <<>>
    /\ ops = Framing
    /\ written = <<PASTE_MODE_CMD, SENTINEL, EOT>>
    /\ emitted = <<<<>>>>
    /\ ~timedOut
    /\ pc = "idle"

----------------------------------------------------------------------------
(* Properties of the backend between commands *)

\* C20: _forward_unexpected_output reads once, what has arrived, and writes
\* nothing; it sends an output event only if it read at least one byte, and
\* then exactly one, on stdout, whose data are the bytes read less one
\* trailing prompt marker if they end with the marker and the bytes read as
\* they are otherwise; a read of the marker alone sends an event with empty
\* data, an empty read sends none; nothing else changes.
C20_UnexpectedOutputForwarded ==
    [][(lastOp' = "_forward_unexpected_output"
           /\ <<lastOp, unread, events>>' # <<lastOp, unread, events>>)
          => LET data == Prefix(unread, Len(unread) - Len(unread')) IN
             /\ unread = data \o unread'
             /\ written' = written
             /\ events' =
                  IF data = <<>> THEN events
                  ELSE Append(events,
                         <<"ProgramOutput", "stdout",
                           IF EndsWith(data, NORMAL_PROMPT)
                           THEN Prefix(data, Len(data) - Len(NORMAL_PROMPT))
                           ELSE data>>)
             /\ UNCHANGED <<pc, connError, child, connId, live, emitted,
                            welcome, scanVars, sideVars, execVars, ops>>]_vars

C20_Witness ==
    /\ lastOp = "_forward_unexpected_output"
    /\ unread = <<>>
    /\ Len(events) = 2
    /\ events[1] = <<"ProgramOutput", "stdout", <<" ">>>>
    /\ events[2] = <<"ProgramOutput", "stdout", <<>>>>

----------------------------------------------------------------------------
(* Properties of a session *)

\* The steps of a run command, and of one whose connection cannot be opened.
RunOrder == <<"close", "spawn", "scan", "announce", "helpers">>
RunFailed == <<"close", "spawn failed">>

\* The step that begins the command after the one begun at step i, one past
\* the end of the log if there is none.
NextClose(i) ==
    LET later == {j \in (i + 1)..Len(ops) : ops[j] = "close"}
    IN IF later = {} THEN Len(ops) + 1
       ELSE CHOOSE j \in later : \A k \in later : j <= k

\* The steps of the run command begun at step i.
RunSteps(i) == SubSeq(ops, i, NextClose(i) - 1)

Count(step) == Cardinality({i \in DOMAIN ops : ops[i] = step})

LastStep == IF ops = <<>> THEN "none" ELSE ops[Len(ops)]

C12_WelcomeIsLiveBanner ==
    LastStep \in {"capture", "announce", "helpers"} =>
        /\ welcome = Replace(StripLast(received, Len(NORMAL_PROMPT)), CRLF, LF)
        /\ LastStep # "capture" => events[Len(events)] = <<"HideTrailingOutput", welcome>>

\* C12: the welcome text is captured once, when the first connection has
\* been scanned up to its first prompt: it is what that connection printed
\* before the prompt, decoded, with every CR LF replaced by LF. Nothing
\* changes it afterwards, a run command included: the text a run command
\* announces is that of the first connection, whatever the new one printed.
C12_WelcomeCapturedOnce ==
    /\ [](Count("capture") <= 1)
    /\ [](Count("capture") = 0 => welcome = <<>>)
    /\ [](\A i \in DOMAIN events :
            events[i][1] = "HideTrailingOutput" => events[i][2] = welcome)
    /\ [][welcome' # welcome
            => /\ lastOp = "__init__"
               /\ pc = "done"
               /\ Count("capture") = 0
               /\ ops' = Append(ops, "capture")
               /\ welcome' = Replace(StripLast(received, Len(NORMAL_PROMPT)),
                                      CRLF, LF)]_vars
    /\ [][ops' = Append(ops, "announce")
            => /\ welcome' = welcome
               /\ events' = Append(events, <<"HideTrailingOutput", welcome>>)]_vars

C12_Witness ==
    /\ LastStep = "helpers"
    /\ welcome = <<"\n">>
    /\ received = <<"M">> \o NORMAL_PROMPT
    /\ events = <<<<"HideTrailingOutput", <<"\n">>>>>>

\* C14: when a connection cannot be opened, at construction or in a run
\* command, the operation ends there and the failure is reported, by the
\* exception in a run command and by an error output event at construction:
\* no second attempt to open, no scan, no capture of the welcome text, no
\* announcement and no installation of helpers follow in that operation, and
\* no connection is open.
C14_OpenFailureIsFatal ==
    /\ \A i \in DOMAIN ops :
          ops[i] = "spawn failed" => (i = Len(ops) \/ ops[i + 1] = "close")
    /\ pc = "halted" => ops = <<"spawn failed">>
    /\ LastStep = "spawn failed" =>
          /\ live = {}
          /\ connId = Count("spawn")
          /\ \/ /\ lastOp = "__init__"
                /\ pc = "halted"
                /\ events = <<<<"ProgramOutput", "stderr", ConnectionFailedText>>>>
                /\ welcome = <<>>
             \/ /\ lastOp = "_cmd_Run"
                /\ pc = "idle"
                /\ signal = "ConnectionFailedException"
                /\ Count("capture") = 1

C14_Witness ==
    /\ ops = <<"spawn", "scan", "capture">> \o RunFailed
    /\ signal = "ConnectionFailedException"
    /\ pc = "idle"
    /\ live = {}
    /\ events = <<>>

====
